---- MODULE Spec2Model ----
(***************************************************************************)
(* A model of tofu/ez/GUI/Main/remote.py: the module initialisation that   *)
(* loads a .env file, get_execute() that chooses between the local and the *)
(* remote reconstruction routine, and remote_reconstruction() that exports *)
(* the parameters, submits one job over an szrpc client and scans the      *)
(* job's result lines for the processed path.                              *)
(*                                                                         *)
(* Python strings are sequences of one-character strings, so that          *)
(* formatting, startswith and split are computed character by character.   *)
(* A filesystem path is the sequence of its components, as pathlib's       *)
(* Path.parts gives them (the root "/" is a component of its own).         *)
(***************************************************************************)
EXTENDS Integers, Sequences, FiniteSets, TLC

----------------------------------------------------------------------------
(* Bounds of the model *)

\* the longest list of result lines the scan is explored with
MaxLines == 3
\* the number of update events the remote service emits at most
MaxUpdates == 2
\* the operations of the process that are explored: the calls of
\* get_execute(), the calls of what it returned, and the changes other code
\* makes to os.environ and EZVARS
MaxOps == 3

----------------------------------------------------------------------------
(* String literals *)

s_tcp == <<"t","c","p",":","/","/">>
s_colon == <<":">>
s_None == <<"N","o","n","e">>
s_localhost == <<"l","o","c","a","l","h","o","s","t">>
s_5555 == <<"5","5","5","5">>
s_dp == <<"d","p">>
s_marker == <<"*","*","*"," ","P","r","o","c","e","s","s","e","d"," ">>
s_yaml == <<"t","o","f","u","e","z","_","r","e","m","o","t","e",".","y","a","m","l">>
s_slash == <<"/">>
s_dot == <<".">>
s_out_tif == <<"/","d","a","t","a","/","o","u","t",".","t","i","f">>

\* the characters str.split() with no argument splits on
Whitespace == {" ", "\t", "\n", "\r"}

----------------------------------------------------------------------------
(* Python's str and list operations *)

\* line.startswith(prefix)
startswith(line, prefix) ==
    /\ Len(line) >= Len(prefix)
    /\ SubSeq(line, 1, Len(prefix)) = prefix

\* The pieces of s between the characters of seps, empty pieces included.
RECURSIVE pieces(_, _, _, _)
pieces(s, seps, i, cur) ==
    IF i > Len(s) THEN <<cur>>
    ELSE IF s[i] \in seps
         THEN <<cur>> \o pieces(s, seps, i + 1, <<>>)
         ELSE pieces(s, seps, i + 1, Append(cur, s[i]))

\* the elements of a sequence that are not in drop, in order
RECURSIVE keep(_, _)
keep(seq, drop) ==
    IF seq = <<>> THEN <<>>
    ELSE IF Head(seq) \in drop
         THEN keep(Tail(seq), drop)
         ELSE <<Head(seq)>> \o keep(Tail(seq), drop)

\* line.split(): the maximal runs of non-whitespace characters
split(line) == keep(pieces(line, Whitespace, 1, <<>>), {<<>>})

\* reversed(seq)
RECURSIVE reversed(_)
reversed(seq) ==
    IF seq = <<>> THEN <<>>
    ELSE Append(reversed(Tail(seq)), Head(seq))

\* sep.join(parts)
RECURSIVE join(_, _)
join(sep, parts) ==
    IF parts = <<>> THEN <<>>
    ELSE IF Len(parts) = 1 THEN parts[1]
         ELSE parts[1] \o sep \o join(sep, Tail(parts))

----------------------------------------------------------------------------
(* Optional values: None, or a string *)

None == [none |-> TRUE, s |-> <<>>]
Some(s) == [none |-> FALSE, s |-> s]

\* the truth value Python gives an optional string: None and "" are false
truthy(v) == ~v.none /\ v.s # <<>>

\* str(v) as an f-string formats it: None becomes the text "None"
format(v) == IF v.none THEN s_None ELSE v.s

----------------------------------------------------------------------------
(* The process environment *)

EnvVars == {"SZRPC_HOST", "SZRPC_PORT"}

\* os.getenv(key): the value, or None when the variable is not set
getenv(env, key) == IF key \in DOMAIN env THEN Some(env[key]) ELSE None

\* load_dotenv(): every variable of the .env file that the environment
\* does not hold yet is set (override is False by default)
load_dotenv(env, file) ==
    [k \in DOMAIN env \cup DOMAIN file |->
        IF k \in DOMAIN env THEN env[k] ELSE file[k]]

----------------------------------------------------------------------------
(* pathlib paths and the filesystem *)

root == <<s_slash>>

\* Path(text): the components between the slashes; empty components and
\* "." are dropped, and a leading slash gives the root component
Path(text) ==
    LET comps == keep(pieces(text, {"/"}, 1, <<>>), {<<>>, s_dot})
    IN  IF startswith(text, s_slash) THEN root \o comps ELSE comps

\* path / name
joinpath(path, name) == Append(path, name)

\* str(path)
str(path) ==
    IF path = <<>> THEN s_dot
    ELSE IF Head(path) = s_slash
         THEN s_slash \o join(s_slash, Tail(path))
         ELSE join(s_slash, path)

\* path.parent and path.name
parent(path) == IF path = <<>> THEN <<>> ELSE SubSeq(path, 1, Len(path) - 1)
name(path) == IF path = <<>> THEN <<>> ELSE path[Len(path)]

\* the path and every ancestor of it below the working directory
ancestors(path) == {SubSeq(path, 1, k) : k \in 1..Len(path)}

\* whether the path is a directory: the working directory always is
is_dir(ds, path) == path = <<>> \/ path \in ds

\* mkdir as it would be without exist_ok=True
mkdir_strict(ds, fs, path) ==
    IF is_dir(ds, path) \/ path \in DOMAIN fs
    THEN [err |-> "FileExistsError", dirs |-> ds]
    ELSE IF ancestors(path) \cap DOMAIN fs # {}
         THEN [err |-> "NotADirectoryError", dirs |-> ds]
         ELSE [err |-> "none", dirs |-> ds \cup ancestors(path)]

\* output_dir.mkdir(exist_ok=True, parents=True): nothing changes when the
\* directory is there; a regular file at the path or at an ancestor raises;
\* otherwise the directory and every missing ancestor are created
mkdir(ds, fs, path) ==
    IF is_dir(ds, path) THEN [err |-> "none", dirs |-> ds]
    ELSE IF path \in DOMAIN fs THEN [err |-> "FileExistsError", dirs |-> ds]
    ELSE IF ancestors(path) \cap DOMAIN fs # {}
         THEN [err |-> "NotADirectoryError", dirs |-> ds]
         ELSE [err |-> "none", dirs |-> ds \cup ancestors(path)]

\* the groups remote_reconstruction exports
groups == <<"ezvars", "tofu", "ezvars_aux">>

\* export_values(path, names): the file at path is replaced by the named
\* groups of the configuration as it is now
export_values(fs, path, names, config) ==
    [p \in DOMAIN fs \cup {path} |->
        IF p = path THEN [groups |-> names, values |-> config] ELSE fs[p]]

----------------------------------------------------------------------------
(* The scan of the result lines *)

\* the scan as it would be with the marker lacking its trailing space
RECURSIVE scan_nospace(_)
scan_nospace(lines) ==
    IF lines = <<>> THEN [err |-> "none", ret |-> None]
    ELSE IF startswith(Head(lines), SubSeq(s_marker, 1, Len(s_marker) - 1))
         THEN IF Len(split(Head(lines))) >= 3
              THEN [err |-> "none", ret |-> Some(split(Head(lines))[3])]
              ELSE [err |-> "IndexError", ret |-> None]
         ELSE scan_nospace(Tail(lines))

\* the scan as it would be if a marker line of fewer than three tokens
\* were passed over
RECURSIVE scan_skipping(_)
scan_skipping(lines) ==
    IF lines = <<>> THEN [err |-> "none", ret |-> None]
    ELSE IF startswith(Head(lines), s_marker) /\ Len(split(Head(lines))) >= 3
         THEN [err |-> "none", ret |-> Some(split(Head(lines))[3])]
         ELSE scan_skipping(Tail(lines))

\* for line in reversed(result.results): the first line that starts with the
\* marker decides; its third token is returned, and indexing a line with
\* fewer tokens raises IndexError.  No such line: the function falls off its
\* end and returns None.
RECURSIVE scan(_)
scan(lines) ==
    IF lines = <<>> THEN [err |-> "none", ret |-> None]
    ELSE IF startswith(Head(lines), s_marker)
         THEN IF Len(split(Head(lines))) >= 3
              THEN [err |-> "none", ret |-> Some(split(Head(lines))[3])]
              ELSE [err |-> "IndexError", ret |-> None]
         ELSE scan(Tail(lines))

----------------------------------------------------------------------------
(* The inputs the model draws from *)

\* an environment or .env file that sets the variables of dom
EnvOver(dom, host, port) ==
    [k \in dom |-> IF k = "SZRPC_HOST" THEN host ELSE port]

\* the environments the process may start with: each variable is not set,
\* set to the empty string, or set to a value
Environments ==
    {EnvOver(dom, host, port) :
        dom \in SUBSET EnvVars, host \in {<<>>, s_localhost}, port \in {<<>>, s_5555}}

\* the .env files: none or an empty one, and one that names both variables
DotenvFiles == {EnvOver({}, <<>>, <<>>), EnvOver(EnvVars, s_dp, s_5555)}

\* the values of EZVARS['inout']['output-dir']['value']: "/data/run/" (a
\* missing parent, a trailing slash) and "rec" (relative)
OutputDirs == {<<"/","d","a","t","a","/","r","u","n","/">>, <<"r","e","c">>}

\* the configuration: the output directory and the revision of the rest
Configs == [outdir : OutputDirs, rev : 0..MaxOps]

\* what a file of the filesystem holds
stale == [groups |-> <<"ezvars">>, values |-> [outdir |-> <<>>, rev |-> 0]]

\* the result lines a job may end with
l_starting == <<"s","t","a","r","t","i","n","g">>
l_done == <<"d","o","n","e">>
l_processed == s_marker \o s_out_tif \o <<" ","e","x","t","r","a">>
l_other == s_marker \o <<" ","/","b","\n">>
l_bare == s_marker
l_nospace == <<"*","*","*"," ","P","r","o","c","e","s","s","e","d">>
Lines == {l_starting, l_done, l_processed, l_other, l_bare, l_nospace}

\* the lists of at most n lines
RECURSIVE ListsUpTo(_, _)
ListsUpTo(S, n) ==
    IF n = 0 THEN {<<>>}
    ELSE LET shorter == ListsUpTo(S, n - 1)
         IN  shorter \cup {Append(l, x) : l \in {m \in shorter : Len(m) = n - 1}, x \in S}

LineLists == ListsUpTo(Lines, MaxLines)

\* the result lines a job of the protocol ends with: none, or one line
JobLineLists == {<<>>} \cup {<<l>> : l \in Lines}

\* the log lines a job reports while it runs
UpdateLines == {<<"a","\n">>, <<"b">>}

----------------------------------------------------------------------------
(* The state *)

VARIABLES
    loaderAvail,    \* whether python-dotenv can be imported
    dotenvFile,     \* the variables of the .env file
    environ,        \* os.environ
    EZVARS,         \* the global configuration
    dirs,           \* the directories of the filesystem
    files,          \* the regular files of the filesystem and what they hold
    logs,           \* the records handed to the logger
    stdout,         \* what was written to standard output, write by write
    jobs,           \* the jobs the remote service was sent
    localRuns,      \* how often the local routine ran
    pc,             \* where the caller or the routine it called is
    execute,        \* the callable get_execute() returned last
    gets,           \* the calls of get_execute()
    calls,          \* the calls of the callable
    changes,        \* the changes other code made to os.environ and EZVARS
    szrpc_address,  \* remote_reconstruction's local
    client,         \* the address the client was constructed with
    ready,          \* what client.is_ready() answers
    output_dir,     \* remote_reconstruction's local
    param_path,     \* remote_reconstruction's local
    subscribed,     \* whether print_log is connected to the update signal
    emitted,        \* the update events the remote service emitted so far
    jobState,       \* "none", "running", "done" or "failed"
    results,        \* result.results
    steps,          \* the steps this call completed, in order
    ret,            \* what the call returned
    err,            \* what the call raised
    threads         \* the calls of remote_reconstruction in other threads

\* whether the process may start another operation
more == gets + calls + changes < MaxOps

world == <<loaderAvail, dotenvFile, environ, EZVARS, dirs, files>>
outputs == <<logs, stdout, jobs, localRuns>>
caller == <<execute, gets, calls, changes>>
locals == <<szrpc_address, client, ready, output_dir, param_path>>
job == <<subscribed, emitted, jobState, results>>
outcome == <<steps, ret, err>>
vars == <<world, outputs, caller, pc, locals, job, outcome, threads>>

\* a log record
record(level, msg, arg) == [level |-> level, msg |-> msg, arg |-> arg]

\* the filesystem before the first call: nothing but the root; the output
\* directory with an export file of an earlier run; a regular file where
\* the output directory should be
Filesystems(outdir) ==
    LET d == Path(outdir)
    IN  { [dirs |-> {root}, files |-> <<>>],
          [dirs |-> {root} \cup ancestors(d),
           files |-> [p \in {joinpath(d, s_yaml)} |-> stale]],
          [dirs |-> {root} \cup ancestors(parent(d)),
           files |-> [p \in {d} |-> stale]] }

\* the threads of the process that call the callable while another call
\* is running
Threads == {1, 2}

\* what a file holds before anything is written to it
nothing == [groups |-> <<>>, values |-> [outdir |-> <<>>, rev |-> 0]]

\* the frame of a thread that has not called: where the call is, its
\* locals, and (for the claims) what the call wrote to the export file and
\* what the file held when the call submitted its job
NoCall ==
    [pc |-> "idle", client |-> None, output_dir |-> <<>>, param_path |-> <<>>,
     exported |-> nothing, held |-> nothing]

Init ==
    /\ loaderAvail \in BOOLEAN
    /\ dotenvFile \in DotenvFiles
    /\ environ \in Environments
    /\ EZVARS \in {c \in Configs : c.rev = 0}
    /\ \E f \in Filesystems(EZVARS.outdir) : dirs = f.dirs /\ files = f.files
    /\ logs = <<>> /\ stdout = <<>> /\ jobs = <<>> /\ localRuns = 0
    /\ pc = "import" /\ execute = "none"
    /\ gets = 0 /\ calls = 0 /\ changes = 0
    /\ szrpc_address = <<>> /\ client = None /\ ready = FALSE
    /\ output_dir = <<>> /\ param_path = <<>>
    /\ subscribed = FALSE /\ emitted = <<>> /\ jobState = "none"
    /\ results = <<>>
    /\ steps = <<>> /\ ret = None /\ err = "none"
    /\ threads = [t \in Threads |-> NoCall]

----------------------------------------------------------------------------
(* Module initialisation *)

\* the initialisation as it would be with the import not guarded
ModuleInit_fatal ==
    /\ pc = "import"
    /\ IF loaderAvail
       THEN /\ environ' = load_dotenv(environ, dotenvFile)
            /\ pc' = "idle"
            /\ err' = err
       ELSE /\ environ' = environ
            /\ pc' = "raised"
            /\ err' = "ImportError"
    /\ UNCHANGED <<loaderAvail, dotenvFile, EZVARS, dirs, files>>
    /\ UNCHANGED <<outputs, caller, locals, job, steps, ret>>
    /\ UNCHANGED threads

\* try: from dotenv import load_dotenv / except ImportError: logger.info(..)
\* / else: load_dotenv()
ModuleInit ==
    /\ pc = "import"
    /\ IF loaderAvail
       THEN /\ environ' = load_dotenv(environ, dotenvFile)
            /\ logs' = logs
       ELSE /\ environ' = environ
            /\ logs' = Append(logs, record("INFO", "Install python-dotenv to enable .env file support.", <<>>))
    /\ pc' = "idle"
    /\ UNCHANGED <<loaderAvail, dotenvFile, EZVARS, dirs, files>>
    /\ UNCHANGED <<stdout, jobs, localRuns, caller, locals, job, outcome>>
    /\ UNCHANGED threads

----------------------------------------------------------------------------
(* get_execute *)

\* the test as it would be if it asked whether the variables are set
uses_remote_present(env) ==
    ~getenv(env, "SZRPC_HOST").none /\ ~getenv(env, "SZRPC_PORT").none

\* os.getenv('SZRPC_HOST') and os.getenv('SZRPC_PORT')
uses_remote(env) ==
    truthy(getenv(env, "SZRPC_HOST")) /\ truthy(getenv(env, "SZRPC_PORT"))

\* get_execute() as it would be if it called the routine it chose
get_execute_calling ==
    /\ pc = "idle"
    /\ more
    /\ gets' = gets + 1
    /\ IF uses_remote(environ)
       THEN /\ szrpc_address' = s_tcp \o format(getenv(environ, "SZRPC_HOST")) \o s_colon
                                       \o format(getenv(environ, "SZRPC_PORT"))
            /\ logs' = logs \o << record("INFO", "Using remote reconstruction", <<>>),
                                  record("DEBUG", "Connecting to", szrpc_address') >>
            /\ execute' = "remote_reconstruction"
            /\ pc' = "client"
            /\ steps' = <<>>
            /\ localRuns' = localRuns
       ELSE /\ szrpc_address' = szrpc_address
            /\ logs' = Append(logs, record("INFO", "Using local reconstruction", <<>>))
            /\ execute' = "execute_reconstruction"
            /\ pc' = "done"
            /\ steps' = <<"local">>
            /\ localRuns' = localRuns + 1
    /\ UNCHANGED <<world, stdout, jobs, calls, changes>>
    /\ UNCHANGED <<client, ready, output_dir, param_path, job, ret, err>>
    /\ UNCHANGED threads

\* the routine get_execute() returns, and what it logs
get_execute ==
    /\ pc = "idle"
    /\ more
    /\ gets' = gets + 1
    /\ IF uses_remote(environ)
       THEN /\ logs' = Append(logs, record("INFO", "Using remote reconstruction", <<>>))
            /\ execute' = "remote_reconstruction"
       ELSE /\ logs' = Append(logs, record("INFO", "Using local reconstruction", <<>>))
            /\ execute' = "execute_reconstruction"
    /\ UNCHANGED <<world, stdout, jobs, localRuns, calls, changes>>
    /\ UNCHANGED <<pc, locals, job, outcome>>
    /\ UNCHANGED threads

----------------------------------------------------------------------------
(* remote_reconstruction *)

\* the address as it would be with host and port exchanged
address_swapped(env) ==
    s_tcp \o format(getenv(env, "SZRPC_PORT")) \o s_colon
          \o format(getenv(env, "SZRPC_HOST"))

\* f"tcp://{os.getenv('SZRPC_HOST')}:{os.getenv('SZRPC_PORT')}"
address(env) ==
    s_tcp \o format(getenv(env, "SZRPC_HOST")) \o s_colon
          \o format(getenv(env, "SZRPC_PORT"))

\* a failure as it would be if the routine caught it and returned
raise_swallowed(e) ==
    /\ pc' = "done"
    /\ err' = "none"
    /\ UNCHANGED <<steps, ret>>

\* the call raises e: nothing after the failing statement runs.  A
\* collaborator (the client, the filesystem) may fail where the routine
\* calls it.
raise(e) ==
    /\ pc' = "raised"
    /\ err' = e
    /\ UNCHANGED <<steps, ret>>

\* the call as it would be if the routine tested the variables again and
\* ran the local routine without them
Enter_fallback ==
    /\ pc = "idle"
    /\ execute = "remote_reconstruction"
    /\ more
    /\ calls' = calls + 1
    /\ IF uses_remote(environ)
       THEN /\ szrpc_address' = address(environ)
            /\ logs' = Append(logs, record("DEBUG", "Connecting to", szrpc_address'))
            /\ pc' = "client"
            /\ steps' = <<>>
            /\ localRuns' = localRuns
       ELSE /\ szrpc_address' = szrpc_address
            /\ logs' = logs
            /\ pc' = "done"
            /\ steps' = <<"local">>
            /\ localRuns' = localRuns + 1
    /\ ret' = None /\ err' = "none"
    /\ UNCHANGED <<world, stdout, jobs, execute, gets, changes>>
    /\ UNCHANGED <<client, ready, output_dir, param_path, job, threads>>

\* the caller invokes the remote routine: the address is built and logged
Enter ==
    /\ pc = "idle"
    /\ execute = "remote_reconstruction"
    /\ more
    /\ calls' = calls + 1
    /\ szrpc_address' = address(environ)
    /\ logs' = Append(logs, record("DEBUG", "Connecting to", szrpc_address'))
    /\ pc' = "client"
    /\ steps' = <<>> /\ ret' = None /\ err' = "none"
    /\ UNCHANGED <<world, stdout, jobs, localRuns, execute, gets, changes>>
    /\ UNCHANGED <<client, ready, output_dir, param_path, job>>
    /\ UNCHANGED threads

\* client = Client(szrpc_address)
NewClient ==
    /\ pc = "client"
    /\ \/ /\ client' = Some(szrpc_address)
          /\ pc' = "poll"
          /\ UNCHANGED outcome
       \/ raise("ClientError") /\ UNCHANGED client
    /\ UNCHANGED <<world, outputs, caller, job>>
    /\ UNCHANGED <<szrpc_address, ready, output_dir, param_path>>
    /\ UNCHANGED threads

\* the connection to the server comes up
ClientReady ==
    /\ pc = "poll"
    /\ ~ready
    /\ ready' = TRUE
    /\ UNCHANGED <<world, outputs, caller, pc, job, outcome>>
    /\ UNCHANGED <<szrpc_address, client, output_dir, param_path>>
    /\ UNCHANGED threads

\* the loop as it would be if it did not ask the client
Poll_unchecked ==
    /\ pc = "poll"
    /\ pc' = "mkdir"
    /\ steps' = Append(steps, "ready")
    /\ logs' = Append(logs, record("DEBUG", "Connected to dpserver", <<>>))
    /\ UNCHANGED <<world, stdout, jobs, localRuns, caller, job, ret, err>>
    /\ UNCHANGED <<szrpc_address, client, ready, output_dir, param_path>>
    /\ UNCHANGED threads

\* the loop as it would be if it gave up on a client that is not ready
Poll_timeout ==
    /\ pc = "poll"
    /\ IF ready
       THEN /\ pc' = "mkdir"
            /\ steps' = Append(steps, "ready")
            /\ logs' = Append(logs, record("DEBUG", "Connected to dpserver", <<>>))
            /\ UNCHANGED <<ret, err>>
       ELSE /\ pc' = "raised"
            /\ err' = "TimeoutError"
            /\ UNCHANGED <<steps, logs, ret>>
    /\ UNCHANGED <<world, stdout, jobs, localRuns, caller, job>>
    /\ UNCHANGED <<szrpc_address, client, ready, output_dir, param_path>>
    /\ UNCHANGED threads

\* while not client.is_ready(): time.sleep(.001)
\* and, once ready, logger.debug("Connected to dpserver")
Poll ==
    /\ pc = "poll"
    /\ IF ready
       THEN /\ pc' = "mkdir"
            /\ steps' = Append(steps, "ready")
            /\ logs' = Append(logs, record("DEBUG", "Connected to dpserver", <<>>))
       ELSE UNCHANGED <<pc, steps, logs>>
    /\ UNCHANGED <<world, stdout, jobs, localRuns, caller, job, ret, err>>
    /\ UNCHANGED <<szrpc_address, client, ready, output_dir, param_path>>
    /\ UNCHANGED threads

\* the directory step as it would be if it wrote the normalised path back
\* to the configuration
Mkdir_normalising ==
    /\ pc = "mkdir"
    /\ output_dir' = Path(EZVARS.outdir)
    /\ EZVARS' = [EZVARS EXCEPT !.outdir = str(output_dir')]
    /\ LET made == mkdir(dirs, files, output_dir')
       IN  IF made.err # "none"
           THEN raise(made.err) /\ dirs' = dirs
           ELSE /\ dirs' = made.dirs
                /\ pc' = "export"
                /\ steps' = Append(steps, "mkdir")
                /\ UNCHANGED <<ret, err>>
    /\ UNCHANGED <<loaderAvail, dotenvFile, environ, files>>
    /\ UNCHANGED <<outputs, caller, job, threads>>
    /\ UNCHANGED <<szrpc_address, client, ready, param_path>>

\* output_dir = Path(EZVARS['inout']['output-dir']['value'])
\* output_dir.mkdir(exist_ok=True, parents=True)
Mkdir ==
    /\ pc = "mkdir"
    /\ output_dir' = Path(EZVARS.outdir)
    /\ LET made == mkdir(dirs, files, output_dir')
       IN  \/ IF made.err # "none"
              THEN raise(made.err) /\ dirs' = dirs
              ELSE /\ dirs' = made.dirs
                   /\ pc' = "export"
                   /\ steps' = Append(steps, "mkdir")
                   /\ UNCHANGED <<ret, err>>
           \/ /\ made.dirs # dirs
              /\ raise("OSError") /\ dirs' = dirs
    /\ UNCHANGED <<loaderAvail, dotenvFile, environ, EZVARS, files>>
    /\ UNCHANGED <<outputs, caller, job>>
    /\ UNCHANGED <<szrpc_address, client, ready, param_path>>
    /\ UNCHANGED threads

\* param_path = output_dir / "tofuez_remote.yaml"
\* export_values(param_path, ['ezvars', 'tofu', 'ezvars_aux'])
Export ==
    /\ pc = "export"
    /\ param_path' = joinpath(output_dir, s_yaml)
    /\ \/ /\ files' = export_values(files, param_path', groups, EZVARS)
          /\ pc' = "submit"
          /\ steps' = Append(steps, "export")
          /\ UNCHANGED <<ret, err>>
       \/ raise("OSError") /\ files' = files
    /\ UNCHANGED <<loaderAvail, dotenvFile, environ, EZVARS, dirs>>
    /\ UNCHANGED <<outputs, caller, job>>
    /\ UNCHANGED <<szrpc_address, client, ready, output_dir>>
    /\ UNCHANGED threads

\* the submission as it would be if the request were issued twice
Submit_twice ==
    /\ pc = "submit"
    /\ LET request == [ezvars |-> str(param_path), address |-> client.s]
       IN  jobs' = jobs \o <<request, request>>
    /\ jobState' = "running"
    /\ pc' = "connect"
    /\ steps' = Append(steps, "submit")
    /\ UNCHANGED <<world, logs, stdout, localRuns, caller, locals>>
    /\ UNCHANGED <<subscribed, emitted, results, ret, err>>
    /\ UNCHANGED threads

\* the submission as it would be if it passed the directory
Submit_dir ==
    /\ pc = "submit"
    /\ jobs' = Append(jobs, [ezvars |-> str(output_dir), address |-> client.s])
    /\ jobState' = "running"
    /\ pc' = "connect"
    /\ steps' = Append(steps, "submit")
    /\ UNCHANGED <<world, logs, stdout, localRuns, caller, locals>>
    /\ UNCHANGED <<subscribed, emitted, results, ret, err>>
    /\ UNCHANGED threads

\* result = client.single(ezvars=str(param_path))
Submit ==
    /\ pc = "submit"
    /\ \/ /\ jobs' = Append(jobs, [ezvars |-> str(param_path), address |-> client.s])
          /\ jobState' = "running"
          /\ pc' = "connect"
          /\ steps' = Append(steps, "submit")
          /\ UNCHANGED <<ret, err>>
       \/ raise("ClientError") /\ UNCHANGED <<jobs, jobState>>
    /\ UNCHANGED <<world, logs, stdout, localRuns, caller, locals>>
    /\ UNCHANGED <<subscribed, emitted, results>>
    /\ UNCHANGED threads

\* the callback as it would be with print's default end
print_log_newline(out, data) == Append(out, data \o <<"\n">>)

\* print(data, end="")
print_log(out, data) == Append(out, data \o <<>>)

\* the job reports a line: the update signal calls what is connected to it
JobUpdate ==
    /\ jobState = "running"
    /\ Len(emitted) < MaxUpdates
    /\ \E data \in UpdateLines :
        /\ emitted' = Append(emitted, data)
        /\ stdout' = IF subscribed THEN print_log(stdout, data) ELSE stdout
    /\ UNCHANGED <<world, logs, jobs, localRuns, caller, pc, locals>>
    /\ UNCHANGED <<subscribed, jobState, results, outcome>>
    /\ UNCHANGED threads

\* the job ends, done or failed
JobFinish ==
    /\ jobState = "running"
    /\ jobState' \in {"done", "failed"}
    /\ UNCHANGED <<world, outputs, caller, pc, locals>>
    /\ UNCHANGED <<subscribed, emitted, results, outcome>>
    /\ UNCHANGED threads

\* line 38 as it would be if the callback were not connected
Connect_unsubscribed ==
    /\ pc = "connect"
    /\ pc' = "wait"
    /\ steps' = Append(steps, "connect")
    /\ UNCHANGED <<world, outputs, caller, locals, threads>>
    /\ UNCHANGED <<subscribed, emitted, jobState, results, ret, err>>

\* result.connect('update', print_log)
Connect ==
    /\ pc = "connect"
    /\ subscribed' = TRUE
    /\ pc' = "wait"
    /\ steps' = Append(steps, "connect")
    /\ UNCHANGED <<world, outputs, caller, locals>>
    /\ UNCHANGED <<emitted, jobState, results, ret, err>>
    /\ UNCHANGED threads

\* the wait as it would be if it returned for a successful job only
Wait_done ==
    /\ pc = "wait"
    /\ jobState = "done"
    /\ results' \in JobLineLists
    /\ pc' = "scan"
    /\ steps' = Append(steps, "wait")
    /\ UNCHANGED <<world, outputs, caller, locals, ret, err>>
    /\ UNCHANGED <<subscribed, emitted, jobState>>
    /\ UNCHANGED threads

\* result.wait(): it returns once the job has ended, and result.results
\* then holds the lines the job left
Wait ==
    /\ pc = "wait"
    /\ jobState \in {"done", "failed"}
    /\ results' \in JobLineLists
    /\ pc' = "scan"
    /\ steps' = Append(steps, "wait")
    /\ UNCHANGED <<world, outputs, caller, locals, ret, err>>
    /\ UNCHANGED <<subscribed, emitted, jobState>>
    /\ UNCHANGED threads

\* the scan as it would be without reversed()
scan_forward(lines) == scan(lines)

\* for line in reversed(result.results): ... return line.split()[2]
scan_results(lines) == scan(reversed(lines))

\* the scan as it would be if a failed job were reported to the caller
Scan_checked ==
    /\ pc = "scan"
    /\ LET found == scan_results(results)
       IN  IF jobState = "failed"
           THEN raise("JobFailed")
           ELSE IF found.err # "none"
                THEN raise(found.err)
                ELSE /\ ret' = found.ret
                     /\ pc' = "done"
                     /\ steps' = Append(steps, "scan")
                     /\ err' = err
    /\ UNCHANGED <<world, outputs, caller, locals, job>>
    /\ UNCHANGED threads

Scan ==
    /\ pc = "scan"
    /\ LET found == scan_results(results)
       IN  IF found.err # "none"
           THEN raise(found.err)
           ELSE /\ ret' = found.ret
                /\ pc' = "done"
                /\ steps' = Append(steps, "scan")
                /\ err' = err
    /\ UNCHANGED <<world, outputs, caller, locals, job>>
    /\ UNCHANGED threads

\* the caller takes what the call returned or raised; the routine's
\* frame is left, and its locals and the result handle are gone
Return ==
    /\ pc \in {"done", "raised"}
    /\ pc' = "idle"
    /\ steps' = <<>> /\ ret' = None /\ err' = "none"
    /\ szrpc_address' = <<>> /\ client' = None /\ ready' = FALSE
    /\ output_dir' = <<>> /\ param_path' = <<>>
    /\ subscribed' = FALSE /\ jobState' = "none" /\ results' = <<>>
    /\ emitted' = emitted
    /\ UNCHANGED <<world, outputs, caller>>
    /\ UNCHANGED threads

----------------------------------------------------------------------------
(* The local routine and the rest of the process *)

\* the caller invokes execute_reconstruction, which runs in this process
Local ==
    /\ pc = "idle"
    /\ execute = "execute_reconstruction"
    /\ more
    /\ calls' = calls + 1
    /\ localRuns' = localRuns + 1
    /\ steps' = <<"local">> /\ ret' = None /\ err' = "none"
    /\ pc' = "done"
    /\ UNCHANGED <<world, logs, stdout, jobs, execute, gets, changes>>
    /\ UNCHANGED <<locals, job>>
    /\ UNCHANGED threads

\* other code of the process sets or deletes one of the two variables
EnvChange ==
    /\ pc = "idle"
    /\ more
    /\ changes' = changes + 1
    /\ \E e \in Environments : 
        /\ e # environ
        /\ \E k \in EnvVars : \A j \in EnvVars \ {k} :
            /\ (j \in DOMAIN e) = (j \in DOMAIN environ)
            /\ j \in DOMAIN e => e[j] = environ[j]
        /\ environ' = e
    /\ UNCHANGED <<loaderAvail, dotenvFile, EZVARS, dirs, files>>
    /\ UNCHANGED <<outputs, execute, gets, calls, pc, locals, job, outcome>>
    /\ UNCHANGED threads

\* other code of the process changes the configuration
ConfigChange ==
    /\ pc = "idle"
    /\ more
    /\ changes' = changes + 1
    /\ EZVARS' \in Configs
    /\ \/ EZVARS'.outdir = EZVARS.outdir /\ EZVARS'.rev = EZVARS.rev + 1
       \/ EZVARS'.outdir # EZVARS.outdir /\ EZVARS'.rev = EZVARS.rev
    /\ UNCHANGED <<loaderAvail, dotenvFile, environ, dirs, files>>
    /\ UNCHANGED <<outputs, execute, gets, calls, pc, locals, job, outcome>>
    /\ UNCHANGED threads

----------------------------------------------------------------------------
(* The specification *)

Next ==
    \/ ModuleInit
    \/ get_execute
    \/ Enter
    \/ NewClient
    \/ ClientReady
    \/ Poll
    \/ Mkdir
    \/ Export
    \/ Submit
    \/ JobUpdate
    \/ JobFinish
    \/ Connect
    \/ Wait
    \/ Scan
    \/ Return
    \/ Local
    \/ EnvChange
    \/ ConfigChange

Spec == Init /\ [][Next]_vars

----------------------------------------------------------------------------
(* Calls of the remote routine on their own: the module is imported,       *)
(* get_execute() has returned remote_reconstruction, and the rest of the   *)
(* process leaves os.environ and EZVARS alone                              *)

InitCall ==
    /\ loaderAvail \in BOOLEAN
    /\ dotenvFile \in DotenvFiles
    /\ \E e \in Environments :
          environ = IF loaderAvail THEN load_dotenv(e, dotenvFile) ELSE e
    /\ uses_remote(environ)
    /\ EZVARS \in {c \in Configs : c.rev = 0}
    /\ \E f \in Filesystems(EZVARS.outdir) : dirs = f.dirs /\ files = f.files
    /\ logs = (IF loaderAvail THEN <<>>
               ELSE <<record("INFO", "Install python-dotenv to enable .env file support.", <<>>)>>)
              \o <<record("INFO", "Using remote reconstruction", <<>>)>>
    /\ stdout = <<>> /\ jobs = <<>> /\ localRuns = 0
    /\ pc = "idle" /\ execute = "remote_reconstruction"
    /\ gets = 1 /\ calls = 0 /\ changes = 0
    /\ szrpc_address = <<>> /\ client = None /\ ready = FALSE
    /\ output_dir = <<>> /\ param_path = <<>>
    /\ subscribed = FALSE /\ emitted = <<>> /\ jobState = "none"
    /\ results = <<>>
    /\ steps = <<>> /\ ret = None /\ err = "none"
    /\ threads = [t \in Threads |-> NoCall]

NextCall ==
    \/ Enter
    \/ NewClient
    \/ ClientReady
    \/ Poll
    \/ Mkdir
    \/ Export
    \/ Submit
    \/ JobUpdate
    \/ JobFinish
    \/ Connect
    \/ Wait
    \/ Scan
    \/ Return

SpecCall == InitCall /\ [][NextCall]_vars

\* the statement remote_reconstruction is at, whichever it is
Statement ==
    \/ NewClient \/ Poll \/ Mkdir \/ Export
    \/ Submit \/ Connect \/ Wait \/ Scan

\* the interpreter runs the next statement of a routine that was entered:
\* a statement that can be run is run
Scheduling == WF_vars(Statement)

\* a client that is polled comes up, and a job that runs ends
Responsive == WF_vars(ClientReady) /\ WF_vars(JobFinish)

FairSpec == SpecCall /\ Scheduling /\ Responsive

----------------------------------------------------------------------------
(* The scan on its own: the routine has reached line 40 of a first call,   *)
(* and the job has left any of the lists of at most MaxLines lines         *)

ScanEntry ==
    LET outdir == <<"/","d","a","t","a","/","r","u","n","/">>
        env == EnvOver(EnvVars, s_localhost, s_5555)
        config == [outdir |-> outdir, rev |-> 0]
        path == joinpath(Path(outdir), s_yaml)
    IN  /\ loaderAvail = FALSE /\ dotenvFile = <<>> /\ environ = env
        /\ EZVARS = config
        /\ dirs = {root} \cup ancestors(Path(outdir))
        /\ files = export_values(<<>>, path, groups, config)
        /\ logs = << record("INFO", "Install python-dotenv to enable .env file support.", <<>>),
                     record("INFO", "Using remote reconstruction", <<>>),
                     record("DEBUG", "Connecting to", address(env)),
                     record("DEBUG", "Connected to dpserver", <<>>) >>
        /\ stdout = <<>>
        /\ jobs = <<[ezvars |-> str(path), address |-> address(env)]>>
        /\ localRuns = 0
        /\ pc = "scan" /\ execute = "remote_reconstruction"
        /\ gets = 1 /\ calls = 1 /\ changes = 0
        /\ szrpc_address = address(env) /\ client = Some(address(env))
        /\ ready = TRUE
        /\ output_dir = Path(outdir) /\ param_path = path
        /\ subscribed = TRUE /\ emitted = <<>>
        /\ jobState \in {"done", "failed"}
        /\ steps = <<"ready", "mkdir", "export", "submit", "connect", "wait">>
        /\ ret = None /\ err = "none"
        /\ threads = [t \in Threads |-> NoCall]

InitScan == ScanEntry /\ results \in LineLists

NextScan ==
    \/ Scan
    \/ Return

SpecScan == InitScan /\ [][NextScan]_vars

----------------------------------------------------------------------------
(* Calls of remote_reconstruction in two threads of the process: lines 33  *)
(* to 37 of each call, interleaved statement by statement, on the one      *)
(* filesystem, the one EZVARS and the one remote service                   *)

\* thread t's frame with some of its fields set
frame(t, changed) ==
    [threads EXCEPT ![t] = [f \in DOMAIN threads[t] |->
        IF f \in DOMAIN changed THEN changed[f] ELSE threads[t][f]]]

\* what the file at path holds
content(fs, path) == IF path \in DOMAIN fs THEN fs[path] ELSE nothing

\* thread t's call raises: the thread's call is over
DispatchRaise(t) ==
    threads' = frame(t, [pc |-> "raised"])

\* thread t calls the callable: lines 26 to 32, the client is constructed
\* and has reported ready
DispatchEnter(t) ==
    /\ threads[t].pc = "idle"
    /\ threads' = frame(t, [pc |-> "mkdir", client |-> Some(address(environ))])
    /\ logs' = logs \o << record("DEBUG", "Connecting to", address(environ)),
                          record("DEBUG", "Connected to dpserver", <<>>) >>
    /\ UNCHANGED <<world, stdout, jobs, localRuns, caller, pc, locals, job, outcome>>

\* lines 33 and 34 in thread t
DispatchMkdir(t) ==
    /\ threads[t].pc = "mkdir"
    /\ LET d == Path(EZVARS.outdir)
           made == mkdir(dirs, files, d)
       IN  \/ IF made.err # "none"
              THEN DispatchRaise(t) /\ dirs' = dirs
              ELSE /\ dirs' = made.dirs
                   /\ threads' = frame(t, [pc |-> "export", output_dir |-> d])
           \/ /\ made.dirs # dirs
              /\ DispatchRaise(t) /\ dirs' = dirs
    /\ UNCHANGED <<loaderAvail, dotenvFile, environ, EZVARS, files>>
    /\ UNCHANGED <<outputs, caller, pc, locals, job, outcome>>

\* the export as it would be if the file were written after the submission
DispatchExport_late(t) ==
    /\ threads[t].pc = "export"
    /\ LET path == joinpath(threads[t].output_dir, s_yaml)
       IN  threads' = frame(t, [pc |-> "submit", param_path |-> path,
                                exported |-> [groups |-> groups, values |-> EZVARS]])
    /\ UNCHANGED <<world, outputs, caller, pc, locals, job, outcome>>

\* lines 35 and 36 in thread t
DispatchExport(t) ==
    /\ threads[t].pc = "export"
    /\ LET path == joinpath(threads[t].output_dir, s_yaml)
       IN  \/ /\ files' = export_values(files, path, groups, EZVARS)
              /\ threads' = frame(t, [pc |-> "submit", param_path |-> path,
                                      exported |-> files'[path]])
           \/ DispatchRaise(t) /\ files' = files
    /\ UNCHANGED <<loaderAvail, dotenvFile, environ, EZVARS, dirs>>
    /\ UNCHANGED <<outputs, caller, pc, locals, job, outcome>>

\* line 37 in thread t
DispatchSubmit(t) ==
    /\ threads[t].pc = "submit"
    /\ \/ /\ jobs' = Append(jobs, [ezvars |-> str(threads[t].param_path),
                                    address |-> threads[t].client.s])
          /\ threads' = frame(t, [pc |-> "connect",
                                  held |-> content(files, threads[t].param_path)])
       \/ DispatchRaise(t) /\ jobs' = jobs
    /\ UNCHANGED <<world, logs, stdout, localRuns, caller, pc, locals, job, outcome>>

NextPair ==
    \/ \E t \in Threads : DispatchEnter(t)
    \/ \E t \in Threads : DispatchMkdir(t)
    \/ \E t \in Threads : DispatchExport(t)
    \/ \E t \in Threads : DispatchSubmit(t)
    \/ ConfigChange

SpecPair == InitCall /\ [][NextPair]_vars

----------------------------------------------------------------------------
(* Claims *)

\* the steps of a remote call, in the order of the source
Order == <<"ready", "mkdir", "export", "submit", "connect", "wait", "scan">>

\* whether a variable is set to a non-empty value
configured(env, key) == key \in DOMAIN env /\ env[key] # <<>>

\* C1: get_execute() returns remote_reconstruction exactly when SZRPC_HOST
\* and SZRPC_PORT are both set to non-empty values, and the local routine
\* in every other combination, a variable set to the empty string included.
C1_Decision ==
    [][gets' # gets =>
        /\ execute' \in {"remote_reconstruction", "execute_reconstruction"}
        /\ execute' = "remote_reconstruction" <=>
              configured(environ, "SZRPC_HOST") /\ configured(environ, "SZRPC_PORT")
      ]_vars

\* get_execute() chose the local routine with the host set to the empty
\* string and the port set to a value
C1_Witness ==
    /\ gets = 1 /\ changes = 0
    /\ DOMAIN environ = EnvVars
    /\ environ["SZRPC_HOST"] = <<>>
    /\ environ["SZRPC_PORT"] = s_5555
    /\ execute = "execute_reconstruction"

\* C2: in a remote call nothing is created, written or submitted before the
\* client has reported ready, and the steps complete in the order: readiness
\* loop, directory, export file, submission, subscription, wait, scan.
C2_Order ==
    [][ /\ (dirs' # dirs \/ files' # files \/ jobs' # jobs) => ready
        /\ dirs' # dirs => steps = SubSeq(Order, 1, 1)
        /\ files' # files => steps = SubSeq(Order, 1, 2)
        /\ jobs' # jobs => steps = SubSeq(Order, 1, 3)
        /\ (subscribed' /\ ~subscribed) => steps = SubSeq(Order, 1, 4)
        /\ (pc = "wait" /\ pc' # "wait") =>
              steps = SubSeq(Order, 1, 5) /\ jobState \in {"done", "failed"}
        /\ (pc = "scan" /\ pc' = "done") => steps = SubSeq(Order, 1, 6)
        /\ (steps' # steps /\ steps' \notin {<<>>, <<"local">>}) =>
              /\ steps = SubSeq(Order, 1, Len(steps))
              /\ steps' = SubSeq(Order, 1, Len(steps) + 1)
              /\ steps' = <<"ready">> => ready
      ]_vars

\* a remote call has returned with every step completed
C2_Witness == pc = "done" /\ steps = Order /\ jobs # <<>>

\* the lines of a list that begin with the marker, by position
marked(lines) == {i \in 1..Len(lines) : startswith(lines[i], s_marker)}

\* the last line of a list that begins with the marker
lastMarked(lines) ==
    lines[CHOOSE i \in marked(lines) : \A j \in marked(lines) : j <= i]

\* the scan of a remote call has run
scanned ==
    /\ pc \in {"done", "raised"}
    /\ Len(steps) >= 6
    /\ steps[6] = "wait"

\* C3 as stated: whenever a result line begins with the marker, the call
\* returns the third token of the last such line.
C3_Original ==
    (scanned /\ marked(results) # {}) =>
        /\ pc = "done"
        /\ Len(split(lastMarked(results))) >= 3
        /\ ret = Some(split(lastMarked(results))[3])

\* C3: when the last result line that begins with the marker holds at least
\* three tokens, the call returns the third token of that line, whatever
\* earlier lines hold; the lines "starting", "*** Processed /data/out.tif
\* extra", "done" give "/data/out.tif".
C3_ThirdToken ==
    /\ (scanned /\ marked(results) # {} /\ Len(split(lastMarked(results))) >= 3) =>
          /\ pc = "done"
          /\ ret = Some(split(lastMarked(results))[3])
    /\ (scanned /\ results = <<l_starting, l_processed, l_done>>) =>
          ret = Some(s_out_tif)

\* the call returned "/data/out.tif" for the three lines of the example
C3_Witness ==
    /\ pc = "done"
    /\ results = <<l_starting, l_processed, l_done>>
    /\ ret = Some(s_out_tif)

\* C4: when no result line begins with the marker (there may be no line at
\* all), the call returns None and raises nothing.
C4_Absent ==
    (scanned /\ marked(results) = {}) =>
        /\ pc = "done"
        /\ ret = None
        /\ err = "none"

\* the call returned None for lines of which one lacks only the marker's
\* trailing space
C4_Witness ==
    /\ pc = "done"
    /\ results = <<l_starting, l_nospace>>
    /\ ret = None

\* C5: while the client does not report ready the call stays in the
\* readiness loop: it does not return, raises nothing, leaves the
\* filesystem alone and submits no job.
C5_Stays ==
    [][(pc = "poll" /\ ~ready) =>
        /\ pc' = "poll"
        /\ err' = "none" /\ ret' = None /\ steps' = <<>>
        /\ dirs' = dirs /\ files' = files /\ jobs' = jobs
      ]_vars

\* a call waits for a client that is not ready
C5_Witness == pc = "poll" /\ ~ready /\ client # None /\ steps = <<>>

\* the decision get_execute() logged last: "none" before the first
RECURSIVE logged(_)
logged(log) ==
    IF log = <<>> THEN "none"
    ELSE IF log[Len(log)].msg = "Using remote reconstruction"
         THEN "remote_reconstruction"
         ELSE IF log[Len(log)].msg = "Using local reconstruction"
              THEN "execute_reconstruction"
              ELSE logged(SubSeq(log, 1, Len(log) - 1))

\* C6 as stated: a call of the callable performs exactly one run of the
\* logged kind: a remote call has submitted one job when it ends, never
\* none, and a local call has run the local routine and submitted none.
C6_Original ==
    pc \in {"done", "raised"} =>
        IF logged(logs) = "remote_reconstruction"
        THEN jobState # "none" /\ steps # <<"local">>
        ELSE steps = <<"local">> /\ jobState = "none"

\* C6: the callable is the routine get_execute() logged.  A remote call
\* that returns has submitted exactly one job and has not run the local
\* routine; no call submits more than one job, and a call that raises may
\* have submitted none.  A local call runs the local routine once and
\* submits no job.
C6_OneRun ==
    /\ [](/\ logged(logs) = execute
          /\ pc = "done" =>
                IF execute = "remote_reconstruction"
                THEN jobState # "none" /\ steps = Order
                ELSE steps = <<"local">> /\ jobState = "none")
    /\ [][ /\ calls' # calls =>
                /\ calls' = calls + 1
                /\ jobState = "none" /\ jobs' = jobs
                /\ IF execute = "remote_reconstruction"
                   THEN pc' = "client" /\ localRuns' = localRuns
                   ELSE execute = "execute_reconstruction" /\ localRuns' = localRuns + 1
           /\ jobs' # jobs =>
                /\ Len(jobs') = Len(jobs) + 1
                /\ SubSeq(jobs', 1, Len(jobs)) = jobs
                /\ jobState = "none" /\ jobState' = "running"
                /\ execute = "remote_reconstruction"
           /\ localRuns' # localRuns => calls' # calls
           /\ (jobState # "none" /\ jobState' = "none") => pc' = "idle"
         ]_vars

\* a first remote call has returned with one job submitted
C6_Witness ==
    /\ pc = "done" /\ calls = 1
    /\ execute = "remote_reconstruction"
    /\ Len(jobs) = 1 /\ localRuns = 0

\* C7: whatever the configured output directory is, the export file is the
\* file tofuez_remote.yaml directly inside it, it is replaced by the groups
\* ezvars, tofu and ezvars_aux, and the job's ezvars parameter names the
\* path of that file (the path the routine wrote to).
C7_ExportPath ==
    [][LET d == Path(EZVARS.outdir)
           p == Append(d, s_yaml)
       IN  /\ files' # files =>
                /\ parent(p) = d /\ name(p) = s_yaml
                /\ DOMAIN files' = DOMAIN files \cup {p}
                /\ files'[p] = [groups |-> <<"ezvars", "tofu", "ezvars_aux">>,
                                values |-> EZVARS]
                /\ \A q \in DOMAIN files \ {p} : files'[q] = files[q]
           /\ jobs' # jobs =>
                LET sent == jobs'[Len(jobs')].ezvars
                IN  /\ p \in DOMAIN files
                    /\ files[p].groups = <<"ezvars", "tofu", "ezvars_aux">>
                    /\ files[p].values = EZVARS
                    /\ Path(sent) = p
                    /\ Path(sent) = param_path
      ]_vars

\* the job was sent "rec/tofuez_remote.yaml", and the file is there
C7_Witness ==
    /\ pc = "connect"
    /\ EZVARS.outdir = <<"r","e","c">>
    /\ jobs[Len(jobs)].ezvars = <<"r","e","c","/">> \o s_yaml
    /\ <<<<"r","e","c">>, s_yaml>> \in DOMAIN files

\* C8: the directory step creates a missing output directory with all its
\* missing parents, and the export file is written after it; when the
\* directory is there the step changes nothing and does not fail, so a
\* second call with the same output directory passes it.
C8_Mkdir ==
    [][LET d == Path(EZVARS.outdir)
           inWay == {SubSeq(d, 1, k) : k \in 1..Len(d)} \cap DOMAIN files
       IN  /\ (pc = "mkdir" /\ pc' # "mkdir") =>
                /\ (d = <<>> \/ d \in dirs) =>
                     /\ pc' = "export" /\ err' = "none"
                     /\ dirs' = dirs /\ files' = files
                /\ pc' = "export" =>
                     /\ \A k \in 1..Len(d) : SubSeq(d, 1, k) \in dirs'
                     /\ dirs' \ dirs \subseteq {SubSeq(d, 1, k) : k \in 1..Len(d)}
                /\ (inWay = {} /\ pc' # "export") => err' = "OSError"
           /\ files' # files => (d = <<>> \/ d \in dirs)
      ]_vars

\* a second call with the output directory of the first has passed the
\* directory step
C8_Witness ==
    /\ calls = 2 /\ changes = 0
    /\ pc = "export"
    /\ Len(jobs) = 1
    /\ jobs[1].ezvars = str(Append(output_dir, s_yaml))
    /\ EZVARS.outdir = <<"/","d","a","t","a","/","r","u","n","/">>
    /\ {<<s_slash, <<"d","a","t","a">> >>, output_dir} \subseteq dirs

\* C9: the client is constructed with "tcp://", the host, ":" and the port,
\* and nothing else; localhost and 5555 give tcp://localhost:5555.
C9_Address ==
    (client # None /\ DOMAIN environ = EnvVars) =>
        /\ client.s = <<"t","c","p",":","/","/">> \o environ["SZRPC_HOST"]
                        \o <<":">> \o environ["SZRPC_PORT"]
        /\ (environ["SZRPC_HOST"] = s_localhost /\ environ["SZRPC_PORT"] = s_5555) =>
              client.s = <<"t","c","p",":","/","/","l","o","c","a","l","h","o","s","t",
                           ":","5","5","5","5">>

\* a client was constructed with tcp://localhost:5555
C9_Witness ==
    /\ pc = "poll"
    /\ client = Some(<<"t","c","p",":","/","/","l","o","c","a","l","h","o","s","t",
                       ":","5","5","5","5">>)

\* C10: the module initialisation completes without raising.  Without the
\* loader one INFO record is logged and the environment is left as it was;
\* with it every variable of the .env file is in the environment, the ones
\* that were set keep their values, and get_execute() runs only afterwards.
C10_Init ==
    /\ []((gets > 0 \/ calls > 0) => pc # "import")
    /\ [][pc = "import" =>
            /\ pc' = "idle" /\ err' = "none"
            /\ IF loaderAvail
               THEN /\ DOMAIN environ' = DOMAIN environ \cup DOMAIN dotenvFile
                    /\ \A k \in DOMAIN environ : environ'[k] = environ[k]
                    /\ \A k \in DOMAIN dotenvFile \ DOMAIN environ :
                          environ'[k] = dotenvFile[k]
                    /\ logs' = logs
               ELSE /\ environ' = environ
                    /\ Len(logs') = 1 /\ logs'[1].level = "INFO"
          ]_vars

\* the initialisation completed without the loader, with a .env file there
C10_Witness ==
    /\ pc = "idle" /\ gets = 0 /\ changes = 0
    /\ ~loaderAvail
    /\ DOMAIN dotenvFile = EnvVars
    /\ DOMAIN environ = {"SZRPC_PORT"}
    /\ Len(logs) = 1

\* the collaborators' failures: the filesystem's and the client's
Failures == {"OSError", "FileExistsError", "NotADirectoryError", "ClientError"}

\* how far a call is: connecting (the client, the readiness loop), connected
\* (the directory), exporting, submitting, streaming and waiting, completed
\* and scanning, ended
stage(p) ==
    CASE p = "client" -> 1
      [] p = "poll" -> 2
      [] p = "mkdir" -> 3
      [] p = "export" -> 4
      [] p = "submit" -> 5
      [] p = "connect" -> 6
      [] p = "wait" -> 7
      [] p = "scan" -> 8
      [] p \in {"done", "raised"} -> 9
      [] OTHER -> 0

\* C11 as stated: with the client coming up and the job ending, every
\* remote call in which no filesystem or client step fails ends in
\* RESULT_FOUND or RESULT_ABSENT.
C11_Original ==
    pc = "client" ~> (pc = "done" \/ (pc = "raised" /\ err \in Failures))

\* C11: with the client coming up and the job ending, every remote call in
\* which no filesystem or client step fails, and whose last marker line (if
\* there is one) holds at least three tokens, ends having returned either a
\* value or None, with all seven steps completed in order; the only other
\* end is the IndexError of a marker line of fewer than three tokens; and a
\* call never goes back to an earlier stage.
C11_Terminates ==
    /\ [][(stage(pc) > 0 /\ pc' # pc) =>
            IF stage(pc) = 9 THEN pc' = "idle" ELSE stage(pc') > stage(pc)]_vars
    /\ [](pc = "done" /\ execute = "remote_reconstruction" =>
            /\ steps = Order
            /\ (ret = None \/ (~ret.none /\ ret.s # <<>>)))
    /\ [](pc = "raised" /\ err \notin Failures =>
            /\ err = "IndexError"
            /\ marked(results) # {}
            /\ Len(split(lastMarked(results))) < 3)
    /\ pc = "client" ~> (pc = "done" /\ steps = Order) \/ pc = "raised"

\* a remote call whose job failed has ended with None returned
C11_Witness ==
    /\ pc = "done" /\ steps = Order
    /\ jobState = "failed" /\ ret = None /\ Len(emitted) = MaxUpdates

\* C12: get_execute() decides, logs and returns a routine, and that is all
\* it does: the step calls neither routine (no call is counted, the caller
\* stays where it is, no address is built, no client is constructed, the
\* local routine does not run), it creates no directory, writes no file and
\* submits no job, and it leaves os.environ and EZVARS as they are; so
\* before the first call of the callable none of this has happened.
C12_Decides ==
    /\ [][gets' # gets =>
            /\ gets' = gets + 1
            /\ execute' \in {"remote_reconstruction", "execute_reconstruction"}
            /\ Len(logs') = Len(logs) + 1
            /\ logs'[Len(logs')].level = "INFO"
            /\ pc' = pc /\ calls' = calls /\ localRuns' = localRuns
            /\ client' = client /\ szrpc_address' = szrpc_address
            /\ dirs' = dirs /\ files' = files /\ jobs' = jobs
            /\ jobState' = jobState /\ stdout' = stdout
            /\ environ' = environ /\ EZVARS' = EZVARS
         ]_vars
    /\ [](calls = 0 =>
            /\ client = None /\ szrpc_address = <<>> /\ jobs = <<>>
            /\ jobState = "none" /\ localRuns = 0 /\ stdout = <<>>
            /\ \E f \in UNION {Filesystems(d) : d \in OutputDirs} :
                  dirs = f.dirs /\ files = f.files)

\* get_execute() has returned each of the two routines once, and nothing
\* was called, connected, created, written or submitted
C12_Witness ==
    /\ gets = 2 /\ calls = 0 /\ changes = 1
    /\ execute = "remote_reconstruction"
    /\ Len(logs) >= 2
    /\ logs[Len(logs) - 1].msg = "Using local reconstruction"
    /\ logs[Len(logs)].msg = "Using remote reconstruction"
    /\ client = None /\ jobs = <<>> /\ localRuns = 0
    /\ dirs = {root} /\ files = <<>>

\* the failures of the filesystem
FsFailures == {"OSError", "FileExistsError", "NotADirectoryError"}

\* C13: a failure of the directory step, of the export, of the client's
\* construction or of the submission ends the call with that error raised
\* to the caller: the failing step has completed nothing, the only step
\* after it is the caller taking the error (no retry, no later step of the
\* routine), and a call that ended with a filesystem failure has submitted
\* no job.
C13_Propagates ==
    /\ [][ /\ (pc = "mkdir" /\ pc' # "mkdir") =>
               (LET made == mkdir(dirs, files, Path(EZVARS.outdir))
                IN  made.err = "none" \/ (pc' = "raised" /\ err' = made.err))
           /\ (pc \in {"client", "mkdir", "export", "submit"} /\ pc' # pc) =>
               \/ /\ pc' = "raised"
                   /\ err' \in (IF pc \in {"mkdir", "export"}
                                THEN FsFailures ELSE {"ClientError"})
                   /\ steps' = steps /\ ret' = None
                   /\ dirs' = dirs /\ files' = files
                   /\ jobs' = jobs /\ jobState' = jobState
               \/ /\ stage(pc') = stage(pc) + 1
                   /\ err' = "none"
           /\ pc = "raised" =>
               /\ pc' = "idle"
               /\ dirs' = dirs /\ files' = files /\ jobs' = jobs
               /\ logs' = logs /\ stdout' = stdout
          ]_vars
    /\ [](pc = "raised" /\ err \in FsFailures =>
            /\ steps \in {<<"ready">>, <<"ready", "mkdir">>}
            /\ jobState = "none")
    /\ [](pc = "raised" /\ err = "ClientError" =>
            /\ steps \in {<<>>, <<"ready", "mkdir", "export">>}
            /\ jobState = "none")

\* the export failed in a first call: the directory is there, the call has
\* raised OSError and no job was submitted
C13_Witness ==
    /\ pc = "raised" /\ err = "OSError" /\ calls = 1
    /\ steps = <<"ready", "mkdir">>
    /\ output_dir \in dirs
    /\ jobs = <<>> /\ jobState = "none"

\* whether the elements of sub are elements of seq, in the order of seq
RECURSIVE embeds(_, _)
embeds(seq, sub) ==
    IF sub = <<>> THEN TRUE
    ELSE IF seq = <<>> THEN FALSE
         ELSE IF Head(seq) = Head(sub)
              THEN embeds(Tail(seq), Tail(sub))
              ELSE embeds(Tail(seq), sub)

\* C14: an update event that reaches the callback adds exactly one write to
\* standard output, the event's line as it is (no newline added); nothing
\* else writes to standard output; and what was written is lines the
\* service emitted, in the order it emitted them.
C14_Printed ==
    /\ [][ /\ (emitted' # emitted /\ subscribed) =>
                stdout' = Append(stdout, emitted'[Len(emitted')])
           /\ stdout' # stdout =>
                /\ subscribed /\ pc = "wait"
                /\ Len(emitted') = Len(emitted) + 1
                /\ stdout' = Append(stdout, emitted'[Len(emitted')])
         ]_vars
    /\ [](embeds(emitted, stdout))

\* two lines were emitted and printed while the call waited: "b", which
\* has no newline, and then "a\n"
C14_Witness ==
    /\ pc = "done"
    /\ emitted = << <<"b">>, <<"a", "\n">> >>
    /\ stdout = << <<"b">>, <<"a", "\n">> >>

\* how a call ends for given result lines, whatever became of the job
ending(lines) ==
    IF marked(lines) = {}
    THEN [pc |-> "done", ret |-> None, err |-> "none"]
    ELSE IF Len(split(lastMarked(lines))) >= 3
         THEN [pc |-> "done", ret |-> Some(split(lastMarked(lines))[3]), err |-> "none"]
         ELSE [pc |-> "raised", ret |-> None, err |-> "IndexError"]

\* C15: how a call ends is a function of the job's result lines alone: the
\* wait returns for a failed job as for a successful one, and two calls
\* whose jobs left the same lines end the same way with the same value, the
\* job failed or not; without a marker line both return None.
C15_SameOutcome ==
    /\ [][(pc = "wait" /\ pc' # "wait") =>
            /\ jobState \in {"done", "failed"}
            /\ pc' = "scan" /\ err' = "none"]_vars
    /\ [](scanned =>
            /\ jobState \in {"done", "failed"}
            /\ [pc |-> pc, ret |-> ret, err |-> err] = ending(results)
            /\ marked(results) = {} => (pc = "done" /\ ret = None))

\* a call whose job failed and left one line without the marker has
\* returned None
C15_Witness ==
    /\ pc = "done"
    /\ jobState = "failed"
    /\ results = <<l_done>>
    /\ ret = None /\ err = "none"

\* the other thread
other(t) == CHOOSE o \in Threads : o # t

\* C16: a call that runs while no other thread has called submits its job
\* with the export file holding what the call itself wrote, whatever
\* became of EZVARS since; with two calls running, a job can be submitted
\* while the file holds the other call's snapshot (the witness).
C16_Alone ==
    [][\A t \in Threads :
          (threads[t].pc = "submit" /\ threads'[t].pc = "connect"
              /\ threads[other(t)].pc = "idle") =>
             /\ Len(jobs') = Len(jobs) + 1
             /\ Path(jobs'[Len(jobs')].ezvars) = threads[t].param_path
             /\ threads[t].param_path \in DOMAIN files
             /\ files[threads[t].param_path] = threads[t].exported
             /\ threads'[t].held = threads[t].exported
      ]_vars

\* two calls on one output directory, the configuration changed between
\* their exports: one has submitted its job while the file held the
\* snapshot of the other
C16_Witness ==
    \E t \in Threads :
        LET mine == threads[t]
            theirs == threads[other(t)]
        IN  /\ mine.pc = "connect"
            /\ theirs.pc \in {"submit", "connect"}
            /\ mine.param_path = theirs.param_path
            /\ mine.exported # theirs.exported
            /\ mine.held = theirs.exported

\* C17 as stated: every update event emitted after the submission is
\* printed, so a call that has returned has printed all that was emitted.
C17_Original ==
    pc = "done" => stdout = emitted

\* C17: every update event the job emits while the callback is subscribed,
\* that is from line 38 until the wait returns, is printed; events are
\* emitted only by a submitted job that runs, and the callback is
\* subscribed all the time the call waits.
C17_Subscribed ==
    /\ [](pc = "wait" => subscribed)
    /\ [](Len(stdout) <= Len(emitted))
    /\ [][emitted' # emitted =>
            /\ jobState = "running" /\ pc \in {"connect", "wait"}
            /\ (subscribed \/ pc = "wait") =>
                  stdout' = Append(stdout, emitted'[Len(emitted')])
         ]_vars

\* "b" was emitted before the callback was subscribed and "a\n" after it:
\* the call has returned and only "a\n" was printed
C17_Witness ==
    /\ pc = "done" /\ calls = 1
    /\ emitted = << <<"b">>, <<"a", "\n">> >>
    /\ stdout = << <<"a", "\n">> >>

\* C18: when the last result line that begins with the marker holds fewer
\* than three tokens the call raises IndexError: it returns nothing, and an
\* earlier marker line, even one of three tokens, is not looked at.
C18_Raises ==
    (scanned /\ marked(results) # {} /\ Len(split(lastMarked(results))) < 3) =>
        /\ pc = "raised"
        /\ err = "IndexError"
        /\ ret = None
        /\ "scan" \notin {steps[i] : i \in DOMAIN steps}

\* the marker alone after a marker line of three tokens and before a line
\* without the marker: the call has raised IndexError
C18_Witness ==
    /\ pc = "raised" /\ err = "IndexError"
    /\ results = <<l_processed, l_bare, l_done>>

\* the text a variable contributes to the address: its value, or "None"
text(env, key) == IF key \in DOMAIN env THEN env[key] ELSE <<"N","o","n","e">>

\* C19: a call of remote_reconstruction builds the address from os.environ
\* as it is at the call, whatever it was when get_execute() decided: an
\* unset variable gives the text "None", an empty one gives nothing.  The
\* call goes on to construct the client with that address and never runs
\* the local routine.
C19_CallTime ==
    /\ [][ /\ (calls' # calls /\ execute = "remote_reconstruction") =>
                /\ szrpc_address' = <<"t","c","p",":","/","/">> \o text(environ, "SZRPC_HOST")
                                       \o <<":">> \o text(environ, "SZRPC_PORT")
                /\ pc' = "client"
                /\ localRuns' = localRuns
           /\ localRuns' # localRuns => execute = "execute_reconstruction"
           /\ (pc = "client" /\ pc' = "poll") => client' = Some(szrpc_address)
           /\ stage(pc) \in 1..8 =>
                szrpc_address' = szrpc_address /\ environ' = environ
         ]_vars
    /\ [](Len(jobs) > 0 /\ jobState # "none" => jobs[Len(jobs)].address = szrpc_address)

\* get_execute() chose the remote routine, SZRPC_HOST was unset, and the
\* call has run the protocol against tcp://None:5555 to its end
C19_Witness ==
    /\ pc = "done" /\ gets = 1 /\ calls = 1 /\ changes = 1
    /\ execute = "remote_reconstruction"
    /\ DOMAIN environ = {"SZRPC_PORT"}
    /\ steps = Order
    /\ jobs[1].address = <<"t","c","p",":","/","/","N","o","n","e",":","5","5","5","5">>
    /\ localRuns = 0

\* the steps of get_execute() and of a call of remote_reconstruction
dispatching ==
    \/ gets' # gets
    \/ calls' # calls /\ execute = "remote_reconstruction"
    \/ stage(pc) > 0 /\ steps # <<"local">>

\* C20: no step of get_execute() or of a call of remote_reconstruction, to
\* a return or to an error, changes EZVARS or os.environ (or the .env
\* file); of the shared state such a step changes only the directories on
\* the way to the output directory, the export file, and the jobs of the
\* remote service, to which it adds one.
C20_ReadsOnly ==
    [][dispatching =>
        /\ EZVARS' = EZVARS
        /\ environ' = environ
        /\ dotenvFile' = dotenvFile /\ loaderAvail' = loaderAvail
        /\ localRuns' = localRuns
        /\ LET d == Path(EZVARS.outdir)
               p == Append(d, s_yaml)
           IN  /\ dirs \subseteq dirs'
               /\ dirs' \ dirs \subseteq {SubSeq(d, 1, k) : k \in 1..Len(d)}
               /\ DOMAIN files \subseteq DOMAIN files'
               /\ \A q \in DOMAIN files' \ {p} : q \in DOMAIN files /\ files'[q] = files[q]
        /\ jobs' # jobs => (Len(jobs') = Len(jobs) + 1 /\ SubSeq(jobs', 1, Len(jobs)) = jobs)
      ]_vars

\* a call has ended with the client's error at the submission, after the
\* directory and the export file were made: EZVARS and os.environ are as
\* they were
C20_Witness ==
    /\ pc = "raised" /\ err = "ClientError"
    /\ steps = <<"ready", "mkdir", "export">>
    /\ gets = 1 /\ calls = 1 /\ changes = 0
    /\ EZVARS = [outdir |-> <<"/","d","a","t","a","/","r","u","n","/">>, rev |-> 0]
    /\ uses_remote(environ)
    /\ param_path \in DOMAIN files /\ output_dir \in dirs
    /\ jobs = <<>>

====
